---- MODULE Spec2Model ----
(***************************************************************************)
(* A model of LinearRegression (src/src/LinearRegression/LinearRegression.ts): *)
(* an incrementally maintained ordinary least-squares fit over a FIFO list *)
(* of points, with five running sums and four lazily computed, cached      *)
(* results (a, b, residual, pearsons_r).                                   *)
(*                                                                         *)
(* Values.  A Big (big.js decimal) is modelled by the rational number it   *)
(* denotes, a record [n, d] in lowest terms with d > 0.  add, minus, mul   *)
(* and pow are exact in big.js; div is modelled by the exact quotient (its *)
(* rounding to Big.DP decimal places is not modelled) and throws on a zero *)
(* divisor.  A JavaScript number, and the Big a sqrt() returns, is         *)
(* modelled by a record [p, c, q] denoting p + c * sqrt(q), with p, c, q   *)
(* rationals, q >= 0, and c = 0 whenever q is the square of a rational, so *)
(* that such a value is zero exactly when p = 0 and c = 0.  The rounding   *)
(* of toNumber to a double is not modelled either: what the model decides  *)
(* about a value is whether it is present, whether it is 0, and which      *)
(* exact quantity it stands for.                                           *)
(*                                                                         *)
(* Calls.  Every public method is an operator from the instance (a record  *)
(* of its fields) to the instance it leaves, how it ended, what it         *)
(* returned and how often it entered calculate(); a method that throws     *)
(* leaves the assignments made before the throw.  An action applies one    *)
(* method to the current instance and records the call.                    *)
(***************************************************************************)
EXTENDS Integers, Sequences, FiniteSets, TLC

\* ------------------------------------------------------------------ bounds
\* The number of points the instance holds at most: push is not called with
\* more points than fit.
MaxPoints == 4

\* The time arguments of getValue and the multipliers of getResidual the
\* model draws from.
Times == {3}
Multipliers == {2}

\* ------------------------------------------------------- rational numbers
Abs(i) == IF i < 0 THEN 0 - i ELSE i

RECURSIVE Gcd(_, _)
Gcd(i, j) == IF j = 0 THEN i ELSE Gcd(j, i % j)

\* The rational n/d (d # 0) in lowest terms with a positive denominator.
Rat(n, d) ==
    LET g == Gcd(Abs(n), Abs(d))
        s == IF d < 0 THEN 0 - 1 ELSE 1
    IN  [n |-> (s * n) \div g, d |-> (s * d) \div g]

\* new Big(i) for an integer i
Big(i) == [n |-> i, d |-> 1]

Zero == Big(0)

\* Big.prototype.add / plus
add(u, v) == Rat(u.n * v.d + v.n * u.d, u.d * v.d)

\* Big.prototype.minus
minus(u, v) == Rat(u.n * v.d - v.n * u.d, u.d * v.d)

\* Big.prototype.mul
mul(u, v) == Rat(u.n * v.n, u.d * v.d)

\* Big.prototype.pow(2)
pow2(u) == mul(u, u)

\* Big.prototype.div throws "Division by zero" exactly when the divisor is 0
divThrows(v) == v.n = 0

\* Big.prototype.div for a divisor that is not 0
div(u, v) == Rat(u.n * v.d, u.d * v.n)

\* The integer square root of i >= 0, searched between lo and hi.
RECURSIVE ISqrtIn(_, _, _)
ISqrtIn(i, lo, hi) ==
    IF lo >= hi THEN lo
    ELSE LET mid == (lo + hi + 1) \div 2
         IN  IF mid * mid <= i THEN ISqrtIn(i, mid, hi) ELSE ISqrtIn(i, lo, mid - 1)

ISqrt(i) == ISqrtIn(i, 0, IF i > 46340 THEN 46340 ELSE i)

IsSquare(i) == ISqrt(i) * ISqrt(i) = i

\* A number p + c * sqrt(q).
Num(p, c, q) == [p |-> p, c |-> c, q |-> q]

\* Big.prototype.toNumber of a Big that no sqrt produced
toNumber(u) == Num(u, Zero, Zero)

\* new Big(v) of a number v returned by toNumber
BigOf(v) == v.p

\* Big.prototype.sqrt of u >= 0, as a number p + c * sqrt(q)
sqrt(u) ==
    IF IsSquare(u.n) /\ IsSquare(u.d)
    THEN Num(Rat(ISqrt(u.n), ISqrt(u.d)), Zero, Zero)
    ELSE Num(Zero, Big(1), u)

\* u.div(r) of a Big u by the result r of a sqrt, r # 0:
\* u / p, or u / sqrt(q) = (u / q) * sqrt(q)
divByRoot(u, r) ==
    IF r.c = Zero THEN Num(div(u, r.p), Zero, Zero)
    ELSE IF u = Zero THEN Num(Zero, Zero, Zero)
    ELSE Num(Zero, div(u, r.q), r.q)

\* v is the number 0 (the one falsy value a cached statistic can hold)
IsZeroNum(v) == v.p = Zero /\ v.c = Zero

\* v * k for a number v and an integer k
NumTimes(v, k) ==
    LET c2 == mul(v.c, Big(k))
    IN  Num(mul(v.p, Big(k)), c2, IF c2 = Zero THEN Zero ELSE v.q)

\* v + w for numbers of which at most one radicand appears
NumPlus(v, w) ==
    LET c2 == add(v.c, w.c)
    IN  Num(add(v.p, w.p), c2,
            IF c2 = Zero THEN Zero ELSE IF v.c = Zero THEN w.q ELSE v.q)

\* ------------------------------------------------------------ the instance
\* The value of a field that holds undefined.
Undefined == [undefined |-> TRUE]

\* The points a caller passes, { x: number, y: number }: among them are
\* three on the line y = 0, two with the same x, two on the line y = x and
\* two on the line y = 2 - x (a repeated point makes a third), and a triple
\* whose x and y are uncorrelated.
Point ==
    {[x |-> 0, y |-> 0], [x |-> 1, y |-> 0], [x |-> 2, y |-> 0], [x |-> 1, y |-> 1]}

\* class CalculatedPoint: the point with its derived fields, computed once.
CalculatedPoint(point) ==
    [x |-> Big(point.x),
     y |-> Big(point.y),
     xy |-> mul(Big(point.x), Big(point.y)),
     x_squared |-> pow2(Big(point.x)),
     y_squared |-> pow2(Big(point.y))]

\* The fields of a LinearRegression right after its field initialisers ran.
New ==
    [points |-> <<>>,
     a |-> Undefined, b |-> Undefined,
     residual |-> Undefined, pearsons_r |-> Undefined,
     sum_x |-> Big(0), sum_y |-> Big(0), sum_xy |-> Big(0),
     sum_x_squared |-> Big(0), sum_y_squared |-> Big(0)]

\* What a call leaves behind: the instance after it, how it ended ("ok" or
\* the error thrown), the numbers it returned and the number of times
\* calculate() was entered on its behalf.
Res(lr, outcome, ret, calls) ==
    [lr |-> lr, outcome |-> outcome, ret |-> ret, calls |-> calls]

\* clearCalculated that resets a and b and keeps the derived statistics.
clearCalculated_coefficientsOnly(lr) ==
    [lr EXCEPT !.a = Undefined, !.b = Undefined]

\* clearCalculated that resets the derived statistics and keeps a and b.
clearCalculated_statsOnly(lr) ==
    [lr EXCEPT !.residual = Undefined, !.pearsons_r = Undefined]

\* private clearCalculated()
clearCalculated(lr) ==
    [lr EXCEPT !.a = Undefined, !.b = Undefined,
               !.residual = Undefined, !.pearsons_r = Undefined]

\* JavaScript truthiness of a field holding a number or undefined: undefined
\* and 0 are falsy.
TruthyNumber(v) == v # Undefined /\ ~IsZeroNum(v)

\* JavaScript truthiness of a field holding a Big or undefined: every object
\* is truthy, a Big that is 0 included.
TruthyBig(v) == v # Undefined

\* private isCalculated()
isCalculated(lr) ==
    /\ TruthyBig(lr.a)
    /\ TruthyBig(lr.b)
    /\ TruthyNumber(lr.residual)
    /\ TruthyNumber(lr.pearsons_r)

\* pushCalculated with x added to sum_x_squared in place of x_squared.
pushCalculated_wrongSquare(lr, calc_point, calculated_cleared) ==
    LET added == [lr EXCEPT
                    !.points = Append(lr.points, calc_point),
                    !.sum_x = add(lr.sum_x, calc_point.x),
                    !.sum_y = add(lr.sum_y, calc_point.y),
                    !.sum_xy = add(lr.sum_xy, calc_point.xy),
                    !.sum_x_squared = add(lr.sum_x_squared, calc_point.x),
                    !.sum_y_squared = add(lr.sum_y_squared, calc_point.y_squared)]
    IN  IF ~calculated_cleared THEN clearCalculated(added) ELSE added

\* pushCalculated without the call of clearCalculated.
pushCalculated_noClear(lr, calc_point, calculated_cleared) ==
    [lr EXCEPT
       !.points = Append(lr.points, calc_point),
       !.sum_x = add(lr.sum_x, calc_point.x),
       !.sum_y = add(lr.sum_y, calc_point.y),
       !.sum_xy = add(lr.sum_xy, calc_point.xy),
       !.sum_x_squared = add(lr.sum_x_squared, calc_point.x_squared),
       !.sum_y_squared = add(lr.sum_y_squared, calc_point.y_squared)]

\* pushCalculated with the sums updated inside the block that runs once per
\* call: only the first point of a batch reaches them.
pushCalculated_sumsOnce(lr, calc_point, calculated_cleared) ==
    IF ~calculated_cleared
    THEN clearCalculated(
           [lr EXCEPT
              !.points = Append(lr.points, calc_point),
              !.sum_x = add(lr.sum_x, calc_point.x),
              !.sum_y = add(lr.sum_y, calc_point.y),
              !.sum_xy = add(lr.sum_xy, calc_point.xy),
              !.sum_x_squared = add(lr.sum_x_squared, calc_point.x_squared),
              !.sum_y_squared = add(lr.sum_y_squared, calc_point.y_squared)])
    ELSE [lr EXCEPT !.points = Append(lr.points, calc_point)]

\* Lines 108-120 of push: calc_point is appended and added to the sums, and
\* the cached fields are cleared unless an earlier iteration did so.
pushCalculated(lr, calc_point, calculated_cleared) ==
    IF ~calculated_cleared
    THEN clearCalculated(
           [lr EXCEPT
              !.points = Append(lr.points, calc_point),
              !.sum_x = add(lr.sum_x, calc_point.x),
              !.sum_y = add(lr.sum_y, calc_point.y),
              !.sum_xy = add(lr.sum_xy, calc_point.xy),
              !.sum_x_squared = add(lr.sum_x_squared, calc_point.x_squared),
              !.sum_y_squared = add(lr.sum_y_squared, calc_point.y_squared)])
    ELSE [lr EXCEPT
              !.points = Append(lr.points, calc_point),
              !.sum_x = add(lr.sum_x, calc_point.x),
              !.sum_y = add(lr.sum_y, calc_point.y),
              !.sum_xy = add(lr.sum_xy, calc_point.xy),
              !.sum_x_squared = add(lr.sum_x_squared, calc_point.x_squared),
              !.sum_y_squared = add(lr.sum_y_squared, calc_point.y_squared)]

\* One iteration of the loop of push: the body for one point.
pushPoint(lr, point, calculated_cleared) ==
    pushCalculated(lr, CalculatedPoint(point), calculated_cleared)

\* The loop of push over the array, from its i-th element on.
RECURSIVE pushLoop(_, _, _, _)
pushLoop(lr, array, i, calculated_cleared) ==
    IF i > Len(array) THEN lr
    ELSE pushLoop(pushPoint(lr, array[i], calculated_cleared), array, i + 1, TRUE)

\* An argument of push or of the constructor: nothing (given = FALSE), one
\* Point (array = FALSE, v[1] the point) or an array of Points (v the array).
NoArg == [given |-> FALSE, array |-> FALSE, v |-> <<>>]
OnePoint(point) == [given |-> TRUE, array |-> FALSE, v |-> <<point>>]
Array(array) == [given |-> TRUE, array |-> TRUE, v |-> array]

\* The points an argument carries, in order.
PointsOf(arg) == arg.v

\* public push(points: Point | Point[])
push(lr, arg) ==
    LET array == IF ~arg.array THEN <<arg.v[1]>> ELSE arg.v
    IN  Res(pushLoop(lr, array, 1, FALSE), "ok", <<>>, 0)

\* pushLoopClears that never sets calculated_cleared: one call per point.
RECURSIVE pushLoopClears_perPoint(_, _, _)
pushLoopClears_perPoint(array, i, calculated_cleared) ==
    IF i > Len(array) THEN 0
    ELSE (IF ~calculated_cleared THEN 1 ELSE 0)
            + pushLoopClears_perPoint(array, i + 1, calculated_cleared)

\* Lines 117-120 over the loop of push, from the i-th element of the array
\* on: the number of times clearCalculated is called.
RECURSIVE pushLoopClears(_, _, _)
pushLoopClears(array, i, calculated_cleared) ==
    IF i > Len(array) THEN 0
    ELSE (IF ~calculated_cleared THEN 1 ELSE 0) + pushLoopClears(array, i + 1, TRUE)

\* The number of times one call push(arg) calls clearCalculated.
pushClears(arg) ==
    pushLoopClears(IF ~arg.array THEN <<arg.v[1]>> ELSE arg.v, 1, FALSE)

\* constructor(points?: Point | Point[])
constructor(arg) == IF arg.given THEN push(New, arg) ELSE Res(New, "ok", <<>>, 0)

\* shiftPoint without the call of clearCalculated.
shiftPoint_noClear(lr, point) ==
    [lr EXCEPT
       !.points = Tail(lr.points),
       !.sum_x = minus(lr.sum_x, point.x),
       !.sum_y = minus(lr.sum_y, point.y),
       !.sum_xy = minus(lr.sum_xy, point.xy),
       !.sum_x_squared = minus(lr.sum_x_squared, point.x_squared),
       !.sum_y_squared = minus(lr.sum_y_squared, point.y_squared)]

\* shiftPoint that leaves the removed point's x * y in sum_xy.
shiftPoint_keepsXY(lr, point) ==
    clearCalculated(
      [lr EXCEPT
         !.points = Tail(lr.points),
         !.sum_x = minus(lr.sum_x, point.x),
         !.sum_y = minus(lr.sum_y, point.y),
         !.sum_x_squared = minus(lr.sum_x_squared, point.x_squared),
         !.sum_y_squared = minus(lr.sum_y_squared, point.y_squared)])

\* shiftPoint that removes the newest point (Array.prototype.pop) and
\* subtracts its values.
shiftPoint_pop(lr, point) ==
    clearCalculated(
      [lr EXCEPT
         !.points = SubSeq(lr.points, 1, Len(lr.points) - 1),
         !.sum_x = minus(lr.sum_x, lr.points[Len(lr.points)].x),
         !.sum_y = minus(lr.sum_y, lr.points[Len(lr.points)].y),
         !.sum_xy = minus(lr.sum_xy, lr.points[Len(lr.points)].xy),
         !.sum_x_squared =
             minus(lr.sum_x_squared, lr.points[Len(lr.points)].x_squared),
         !.sum_y_squared =
             minus(lr.sum_y_squared, lr.points[Len(lr.points)].y_squared)])

\* Lines 131-137 of shift: the removed point leaves the sums and the cached
\* fields are cleared.
shiftPoint(lr, point) ==
    clearCalculated(
      [lr EXCEPT
         !.points = Tail(lr.points),
         !.sum_x = minus(lr.sum_x, point.x),
         !.sum_y = minus(lr.sum_y, point.y),
         !.sum_xy = minus(lr.sum_xy, point.xy),
         !.sum_x_squared = minus(lr.sum_x_squared, point.x_squared),
         !.sum_y_squared = minus(lr.sum_y_squared, point.y_squared)])

\* shift that throws when there is no point to remove.
shift_throwsOnEmpty(lr) ==
    IF lr.points # <<>>
    THEN Res(shiftPoint(lr, Head(lr.points)), "ok", <<>>, 0)
    ELSE Res(lr, "NotEnoughDataError", <<>>, 0)

\* public shift()
shift(lr) ==
    IF lr.points # <<>>
    THEN Res(shiftPoint(lr, Head(lr.points)), "ok", <<>>, 0)
    ELSE Res(lr, "ok", <<>>, 0)

\* count that returns the last index in place of the length.
count_lastIndex(lr) == Res(lr, "ok", <<toNumber(Big(Len(lr.points) - 1))>>, 0)

\* public count()
count(lr) == Res(lr, "ok", <<toNumber(Big(Len(lr.points)))>>, 0)

\* Lines 247-248 of getValue: Y = bX + a, as a number.
valueAt(lr, time) == toNumber(add(mul(lr.b, time), lr.a))

\* The sums the loop of calculate accumulates, before its first iteration.
NoSums ==
    [sum_residual_squared |-> Big(0),
     sum_r_top |-> Big(0),
     sum_x_minus_mean_x_squared |-> Big(0),
     sum_y_minus_mean_y_squared |-> Big(0)]

\* The body of the loop of calculate for one point, y_hat being the value
\* getValue returns for its x.
calculateLoopBody(point, y_hat, mean_x, mean_y, sums) ==
    [sum_residual_squared |->
        add(sums.sum_residual_squared, pow2(minus(point.y, BigOf(y_hat)))),
     sum_r_top |->
        add(sums.sum_r_top, mul(minus(point.x, mean_x), minus(point.y, mean_y))),
     sum_x_minus_mean_x_squared |->
        add(sums.sum_x_minus_mean_x_squared, pow2(minus(point.x, mean_x))),
     sum_y_minus_mean_y_squared |->
        add(sums.sum_y_minus_mean_y_squared, pow2(minus(point.y, mean_y)))]

\* The loop of calculate over this.points, from index key on.  It calls
\* getValue when a and b have just been assigned, so that getValue goes
\* straight to its lines 247-248 (a Big is truthy whatever its value).
RECURSIVE calculateLoop(_, _, _, _, _)
calculateLoop(lr, key, mean_x, mean_y, sums) ==
    IF key > Len(lr.points) THEN sums
    ELSE calculateLoop(lr, key + 1, mean_x, mean_y,
           calculateLoopBody(lr.points[key], valueAt(lr, lr.points[key].x),
                             mean_x, mean_y, sums))

\* Lines 194-200 of calculate: Pearson's R from the sum of the products of
\* the deviations and the root of the product of their squares; the
\* division throws when that root is 0.
calculatePearsonsR(lr, sum_r_top, root) ==
    IF IsZeroNum(root) THEN Res(lr, "DivisionByZero", <<>>, 1)
    ELSE Res([lr EXCEPT !.pearsons_r = divByRoot(sum_r_top, root)], "ok", <<>>, 1)

\* calculateResidual dividing by n in place of n - 2.
calculateResidual_byN(lr, sums) ==
    IF divThrows(Big(Len(lr.points))) THEN Res(lr, "DivisionByZero", <<>>, 1)
    ELSE calculatePearsonsR(
           [lr EXCEPT !.residual =
               sqrt(div(sums.sum_residual_squared, Big(Len(lr.points))))],
           sums.sum_r_top,
           sqrt(mul(sums.sum_x_minus_mean_x_squared, sums.sum_y_minus_mean_y_squared)))

\* calculateResidual dividing by n - 1 in place of n - 2.
calculateResidual_nMinus1(lr, sums) ==
    IF divThrows(Big(Len(lr.points) - 1)) THEN Res(lr, "DivisionByZero", <<>>, 1)
    ELSE calculatePearsonsR(
           [lr EXCEPT !.residual =
               sqrt(div(sums.sum_residual_squared, Big(Len(lr.points) - 1)))],
           sums.sum_r_top,
           sqrt(mul(sums.sum_x_minus_mean_x_squared, sums.sum_y_minus_mean_y_squared)))

\* calculateResidual taking the root of the sum of the two sums of squared
\* deviations in place of their product.
calculateResidual_sumRoot(lr, sums) ==
    IF divThrows(Big(Len(lr.points) - 2)) THEN Res(lr, "DivisionByZero", <<>>, 1)
    ELSE calculatePearsonsR(
           [lr EXCEPT !.residual =
               sqrt(div(sums.sum_residual_squared, Big(Len(lr.points) - 2)))],
           sums.sum_r_top,
           sqrt(add(sums.sum_x_minus_mean_x_squared, sums.sum_y_minus_mean_y_squared)))

\* Lines 186-192 of calculate: the residual from the sums of the loop; the
\* division by n - 2 throws when n = 2.  Pearson's R follows.
calculateResidual(lr, sums) ==
    IF divThrows(Big(Len(lr.points) - 2)) THEN Res(lr, "DivisionByZero", <<>>, 1)
    ELSE calculatePearsonsR(
           [lr EXCEPT !.residual =
               sqrt(div(sums.sum_residual_squared, Big(Len(lr.points) - 2)))],
           sums.sum_r_top,
           sqrt(mul(sums.sum_x_minus_mean_x_squared, sums.sum_y_minus_mean_y_squared)))

\* Lines 166-184 of calculate: a and b are assigned; the means and the loop.
calculateStatistics(lr) ==
    calculateResidual(lr,
        calculateLoop(lr, 1,
                      div(lr.sum_x, Big(Len(lr.points))),
                      div(lr.sum_y, Big(Len(lr.points))),
                      NoSums))

\* calculateCoefficients with the numerators of a and b exchanged.
calculateCoefficients_swapped(lr, denom) ==
    IF divThrows(denom) THEN Res(lr, "DivisionByZero", <<>>, 1)
    ELSE calculateStatistics(
           [lr EXCEPT
              !.b = div(minus(mul(lr.sum_y, lr.sum_x_squared),
                              mul(lr.sum_x, lr.sum_xy)), denom),
              !.a = div(minus(mul(Big(Len(lr.points)), lr.sum_xy),
                              mul(lr.sum_x, lr.sum_y)), denom)])

\* Lines 151-164 of calculate: a and b from the shared denominator; the
\* first division throws when the denominator is 0, before a is assigned.
calculateCoefficients(lr, denom) ==
    IF divThrows(denom) THEN Res(lr, "DivisionByZero", <<>>, 1)
    ELSE calculateStatistics(
           [lr EXCEPT
              !.a = div(minus(mul(lr.sum_y, lr.sum_x_squared),
                              mul(lr.sum_x, lr.sum_xy)), denom),
              !.b = div(minus(mul(Big(Len(lr.points)), lr.sum_xy),
                              mul(lr.sum_x, lr.sum_y)), denom)])

\* calculate with sum_xy in place of sum_x_squared in the denominator.
calculate_wrongDenom(lr) ==
    IF Len(lr.points) < 2 THEN Res(lr, "NotEnoughDataError", <<>>, 1)
    ELSE calculateCoefficients(lr,
           minus(mul(Big(Len(lr.points)), lr.sum_xy), pow2(lr.sum_x)))

\* public calculate()
calculate(lr) ==
    IF Len(lr.points) < 2 THEN Res(lr, "NotEnoughDataError", <<>>, 1)
    ELSE calculateCoefficients(lr,
           minus(mul(Big(Len(lr.points)), lr.sum_x_squared), pow2(lr.sum_x)))

\* "if (!valid) { this.calculate(); }": the call of calculate an accessor
\* makes when its test of the cached fields fails.
calculateUnless(lr, valid) == IF valid THEN Res(lr, "ok", <<>>, 0) ELSE calculate(lr)

\* The call `second` made after the call `first` of the same public method,
\* which returned: the calls of calculate add up.
After(first, second) == [second EXCEPT !.calls = first.calls + second.calls]

\* Line 212 of getResidual, after the call c of calculate (if any) that
\* precedes it: nothing is returned when calculate threw.
returnResidual(c, std_dev_val) ==
    IF c.outcome # "ok" THEN c
    ELSE Res(c.lr, "ok", <<NumTimes(c.lr.residual, std_dev_val)>>, c.calls)

\* public getResidual(std_dev_val = 1)
getResidual(lr, std_dev_val) ==
    returnResidual(calculateUnless(lr, isCalculated(lr)), std_dev_val)

\* public getStandardDeviation(std_dev_val = 1)
getStandardDeviation(lr, std_dev_val) == getResidual(lr, std_dev_val)

\* Line 234 of getPearsonsR, after the call c of calculate (if any).
returnPearsonsR(c) ==
    IF c.outcome # "ok" THEN c
    ELSE Res(c.lr, "ok", <<c.lr.pearsons_r>>, c.calls)

\* public getPearsonsR()
getPearsonsR(lr) == returnPearsonsR(calculateUnless(lr, isCalculated(lr)))

\* Lines 247-248 of getValue, after the call c of calculate (if any).
returnValue(c, time) ==
    IF c.outcome # "ok" THEN c
    ELSE Res(c.lr, "ok", <<valueAt(c.lr, Big(time))>>, c.calls)

\* public getValue(time)
getValue(lr, time) ==
    returnValue(calculateUnless(lr, TruthyBig(lr.a) /\ TruthyBig(lr.b)), time)

\* Line 263: the sum, once getValue returned v and getStandardDeviation d.
returnSum(v, d) ==
    IF d.outcome # "ok" THEN After(v, d)
    ELSE After(v, Res(d.lr, "ok", <<NumPlus(v.ret[1], d.ret[1])>>, d.calls))

\* Line 263: getStandardDeviation is called once getValue has returned v.
plusStandardDeviation(v, std_deviation) ==
    IF v.outcome # "ok" THEN v
    ELSE returnSum(v, getStandardDeviation(v.lr, std_deviation))

\* public getStandardDeviationValue(time, std_deviation)
getStandardDeviationValue(lr, time, std_deviation) ==
    plusStandardDeviation(getValue(lr, time), std_deviation)

\* Line 252: the array, once its three elements are evaluated.
returnValues(lower, fitted, upper) ==
    IF upper.outcome # "ok" THEN After(lower, After(fitted, upper))
    ELSE After(lower, After(fitted,
           Res(upper.lr, "ok", <<lower.ret[1], fitted.ret[1], upper.ret[1]>>,
               upper.calls)))

\* Line 252: the third element is evaluated once the second is.
thenUpper(lower, fitted, time, std_dev_val) ==
    IF fitted.outcome # "ok" THEN After(lower, fitted)
    ELSE returnValues(lower, fitted,
                      getStandardDeviationValue(fitted.lr, time, std_dev_val))

\* Line 252: the second element is evaluated once the first is.
thenFitted(lower, time, std_dev_val) ==
    IF lower.outcome # "ok" THEN lower
    ELSE thenUpper(lower, getValue(lower.lr, time), time, std_dev_val)

\* getValues that passes std_dev_val unnegated for the first element.
getValues_sameSign(lr, time, std_dev_val) ==
    thenFitted(getStandardDeviationValue(lr, time, std_dev_val),
               time, std_dev_val)

\* public getValues(time, std_dev_val = 2)
getValues(lr, time, std_dev_val) ==
    thenFitted(getStandardDeviationValue(lr, time, std_dev_val * (0 - 1)),
               time, std_dev_val)

\* ------------------------------------------------------ the state machine
VARIABLES
    \* the fields of the instance
    points, a, b, residual, pearsons_r,
    sum_x, sum_y, sum_xy, sum_x_squared, sum_y_squared,
    \* the last call: its name, its arguments, how it ended, what it returned
    \* and how many times it entered calculate()
    op, args, outcome, ret, calcCalls,
    \* the instance as the last call found it
    pre,
    \* the points handed to the instance and not yet removed by a shift that
    \* found a point to remove, oldest first
    window

vars ==
    <<points, a, b, residual, pearsons_r,
      sum_x, sum_y, sum_xy, sum_x_squared, sum_y_squared,
      op, args, outcome, ret, calcCalls, pre, window>>

\* The instance, as one record of its fields.
Self ==
    [points |-> points,
     a |-> a, b |-> b,
     residual |-> residual, pearsons_r |-> pearsons_r,
     sum_x |-> sum_x, sum_y |-> sum_y, sum_xy |-> sum_xy,
     sum_x_squared |-> sum_x_squared, sum_y_squared |-> sum_y_squared]

\* The arrays of at most k points.
Arrays(k) == UNION {[1..m -> Point] : m \in 0..k}

\* The arguments push is called with when the instance holds `have` points:
\* one point, or an array (the empty one included) that still fits.
PushArgs(have) ==
    {OnePoint(point) : point \in {pt \in Point : have < MaxPoints}}
        \cup {Array(array) : array \in Arrays(MaxPoints - have)}

\* The instance becomes r.lr and the call is recorded.
Returns(r, name, arguments, before) ==
    /\ points' = r.lr.points
    /\ a' = r.lr.a
    /\ b' = r.lr.b
    /\ residual' = r.lr.residual
    /\ pearsons_r' = r.lr.pearsons_r
    /\ sum_x' = r.lr.sum_x
    /\ sum_y' = r.lr.sum_y
    /\ sum_xy' = r.lr.sum_xy
    /\ sum_x_squared' = r.lr.sum_x_squared
    /\ sum_y_squared' = r.lr.sum_y_squared
    /\ op' = name
    /\ args' = arguments
    /\ outcome' = r.outcome
    /\ ret' = r.ret
    /\ calcCalls' = r.calls
    /\ pre' = before

\* new LinearRegression(), new LinearRegression(point),
\* new LinearRegression([...])
Init ==
    \E arg \in {NoArg} \cup PushArgs(0) :
        LET r == constructor(arg)
        IN  /\ points = r.lr.points
            /\ a = r.lr.a
            /\ b = r.lr.b
            /\ residual = r.lr.residual
            /\ pearsons_r = r.lr.pearsons_r
            /\ sum_x = r.lr.sum_x
            /\ sum_y = r.lr.sum_y
            /\ sum_xy = r.lr.sum_xy
            /\ sum_x_squared = r.lr.sum_x_squared
            /\ sum_y_squared = r.lr.sum_y_squared
            /\ op = "constructor"
            /\ args = <<arg>>
            /\ outcome = r.outcome
            /\ ret = r.ret
            /\ calcCalls = r.calls
            /\ pre = New
            /\ window = PointsOf(arg)

Push ==
    \E arg \in PushArgs(Len(points)) :
        /\ Returns(push(Self, arg), "push", <<arg>>, Self)
        /\ window' = window \o PointsOf(arg)

Shift ==
    /\ Returns(shift(Self), "shift", <<>>, Self)
    /\ window' = IF window # <<>> THEN Tail(window) ELSE window

Count ==
    /\ Returns(count(Self), "count", <<>>, Self)
    /\ UNCHANGED window

Calculate ==
    /\ Returns(calculate(Self), "calculate", <<>>, Self)
    /\ UNCHANGED window

GetResidual ==
    \E std_dev_val \in Multipliers :
        /\ Returns(getResidual(Self, std_dev_val), "getResidual", <<std_dev_val>>, Self)
        /\ UNCHANGED window

GetStandardDeviation ==
    \E std_dev_val \in Multipliers :
        /\ Returns(getStandardDeviation(Self, std_dev_val),
                   "getStandardDeviation", <<std_dev_val>>, Self)
        /\ UNCHANGED window

GetPearsonsR ==
    /\ Returns(getPearsonsR(Self), "getPearsonsR", <<>>, Self)
    /\ UNCHANGED window

GetValue ==
    \E time \in Times :
        /\ Returns(getValue(Self, time), "getValue", <<time>>, Self)
        /\ UNCHANGED window

GetStandardDeviationValue ==
    \E time \in Times, std_deviation \in Multipliers :
        /\ Returns(getStandardDeviationValue(Self, time, std_deviation),
                   "getStandardDeviationValue", <<time, std_deviation>>, Self)
        /\ UNCHANGED window

GetValues ==
    \E time \in Times, std_dev_val \in Multipliers :
        /\ Returns(getValues(Self, time, std_dev_val),
                   "getValues", <<time, std_dev_val>>, Self)
        /\ UNCHANGED window

Next ==
    \/ Push
    \/ Shift
    \/ Count
    \/ Calculate
    \/ GetResidual
    \/ GetStandardDeviation
    \/ GetPearsonsR
    \/ GetValue
    \/ GetStandardDeviationValue
    \/ GetValues

Spec == Init /\ [][Next]_vars

\* ------------------------------------------------- vocabulary of the claims
\* The four cached fields are all undefined.
Absent(lr) ==
    /\ lr.a = Undefined
    /\ lr.b = Undefined
    /\ lr.residual = Undefined
    /\ lr.pearsons_r = Undefined

\* The four cached fields are all present, whatever their values.
AllPresent(lr) ==
    /\ lr.a # Undefined
    /\ lr.b # Undefined
    /\ lr.residual # Undefined
    /\ lr.pearsons_r # Undefined

\* The stored points and the five running sums.
Core(lr) ==
    <<lr.points, lr.sum_x, lr.sum_y, lr.sum_xy, lr.sum_x_squared, lr.sum_y_squared>>

\* The accessors, by the name the last call is recorded under.
AccessorOps ==
    {"getValue", "getResidual", "getStandardDeviation", "getPearsonsR",
     "getStandardDeviationValue", "getValues"}

\* What each accessor would leave behind if it were called on lr next, for
\* every argument of the model.
AccessorResults(lr) ==
    {getPearsonsR(lr)}
        \cup {getValue(lr, time) : time \in Times}
        \cup {getResidual(lr, k) : k \in Multipliers}
        \cup {getStandardDeviation(lr, k) : k \in Multipliers}
        \cup {getStandardDeviationValue(lr, time, k) : time \in Times, k \in Multipliers}
        \cup {getValues(lr, time, k) : time \in Times, k \in Multipliers}

\* The sum over the points pts of the term named k, computed from their x
\* and y alone.
Term(point, k) ==
    CASE k = "x" -> point.x
      [] k = "y" -> point.y
      [] k = "xy" -> mul(point.x, point.y)
      [] k = "x_squared" -> mul(point.x, point.x)
      [] k = "y_squared" -> mul(point.y, point.y)

RECURSIVE SumOfTerms(_, _)
SumOfTerms(pts, k) ==
    IF pts = <<>> THEN Zero ELSE add(Term(Head(pts), k), SumOfTerms(Tail(pts), k))

\* All stored points have the same x; all have the same y.
SameX(pts) == \A i, j \in 1..Len(pts) : pts[i].x = pts[j].x
SameY(pts) == \A i, j \in 1..Len(pts) : pts[i].y = pts[j].y

\* The instance after the points of `array` were pushed one per call.
RECURSIVE PushEach(_, _)
PushEach(lr, array) ==
    IF array = <<>> THEN lr
    ELSE PushEach(push(lr, OnePoint(Head(array))).lr, Tail(array))

\* -------------------------------------------------------------------- C1
\* C1: in every reachable state each of the five running sums equals the sum
\* of x, y, x*y, x^2, y^2 over the points stored at that moment.
C1_RunningSums ==
    /\ sum_x = SumOfTerms(points, "x")
    /\ sum_y = SumOfTerms(points, "y")
    /\ sum_xy = SumOfTerms(points, "xy")
    /\ sum_x_squared = SumOfTerms(points, "x_squared")
    /\ sum_y_squared = SumOfTerms(points, "y_squared")

\* A shift has removed a point from an instance that pushes had filled, and
\* points with non-zero sums remain.
C1_Witness ==
    /\ op = "shift"
    /\ Len(pre.points) >= 3
    /\ Len(points) >= 2
    /\ sum_xy # Zero
    /\ sum_y_squared # Zero

\* -------------------------------------------------------------------- C2
\* C2: with fewer than 2 stored points the cached fields are absent, and
\* calculate() and every accessor fail with NotEnoughDataError, return
\* nothing and leave the instance (points, sums, cached fields) as it was;
\* a call that ended with NotEnoughDataError changed nothing.
C2_NotEnoughData ==
    /\ Len(points) < 2 =>
         /\ Absent(Self)
         /\ \A r \in {calculate(Self)} \cup AccessorResults(Self) :
              /\ r.outcome = "NotEnoughDataError"
              /\ r.ret = <<>>
              /\ r.lr = Self
    /\ outcome = "NotEnoughDataError" =>
         /\ Len(points) < 2
         /\ Self = pre
         /\ ret = <<>>

\* An accessor has failed with NotEnoughDataError on one stored point that
\* was left after a shift.
C2_Witness ==
    /\ op = "getValues"
    /\ outcome = "NotEnoughDataError"
    /\ Len(points) = 1
    /\ Len(window) = 1

\* -------------------------------------------------------------------- C3
\* C3: a push or a shift that changes the stored points leaves the four
\* cached fields undefined; and an accessor called while they are undefined
\* enters calculate() at least once, on the points stored then: it ends as
\* calculate() ends on them and leaves the instance calculate() leaves.
C3_MonotonicInvalidation ==
    [][/\ (op' \in {"push", "shift"} /\ points' # points) => Absent(Self')
       /\ (Absent(Self) /\ op' \in AccessorOps) =>
            /\ calcCalls' >= 1
            /\ outcome' = calculate(Self).outcome
            /\ Self' = calculate(Self).lr]_vars

\* A push has added a point to an instance whose four cached fields a
\* calculate() had filled; they are undefined again and calculate() would
\* succeed on the new points.
C3_Witness ==
    /\ op = "push"
    /\ isCalculated(pre)
    /\ points # pre.points
    /\ Absent(Self)
    /\ calculate(Self).outcome = "ok"

\* -------------------------------------------------------------------- C4
\* C4: an accessor called when the four cached fields are all present (a
\* calculate() succeeded and no push or shift followed) does not enter
\* calculate(), whatever the cached values are.
C4_Memoization ==
    (op \in AccessorOps /\ AllPresent(pre)) => calcCalls = 0

\* -------------------------------------------------------------------- C5
\* C5: an accessor called when the four cached fields are not all present
\* enters calculate() and ends as calculate() ends on the stored points; in
\* particular getValue returns nothing where calculate() fails.
C5_AccessorsSurfaceFailure ==
    (op \in AccessorOps /\ ~AllPresent(pre)) =>
        /\ calcCalls >= 1
        /\ outcome = calculate(pre).outcome

\* -------------------------------------------------------------------- C6
\* C6: for the sequence P of points handed over and still stored, the
\* instance constructed with P, the empty instance after push(P) and the
\* empty instance after one push per point of P are the same instance, the
\* instance itself has their points and sums, and calculate() ends the same
\* way and leaves the same fields on each of the three.
C6_IncrementalEqualsBatch ==
    /\ constructor(Array(window)).lr = push(New, Array(window)).lr
    /\ push(New, Array(window)).lr = PushEach(New, window)
    /\ Core(Self) = Core(constructor(Array(window)).lr)
    /\ calculate(constructor(Array(window)).lr) = calculate(PushEach(New, window))

\* A push of one point has completed three points or more, on which
\* calculate() succeeds.
C6_Witness ==
    /\ op = "push"
    /\ ~args[1].array
    /\ Len(points) >= 3
    /\ Len(pre.points) >= 2
    /\ calculate(Self).outcome = "ok"

\* -------------------------------------------------------------------- C7
\* C7: once as many points were removed by shift as were pushed, count() is
\* 0, the five running sums are exactly zero and the four cached fields are
\* undefined.
C7_ShiftInverseOfPush ==
    window = <<>> =>
        /\ count(Self).ret = <<toNumber(Big(0))>>
        /\ sum_x = Zero
        /\ sum_y = Zero
        /\ sum_xy = Zero
        /\ sum_x_squared = Zero
        /\ sum_y_squared = Zero
        /\ Absent(Self)

\* The shift that removed the last of the pushed points, whose sums were
\* not zero.
C7_Witness ==
    /\ op = "shift"
    /\ window = <<>>
    /\ pre.points # <<>>
    /\ pre.sum_xy # Zero
    /\ points = <<>>

\* -------------------------------------------------------------------- C8
\* C8: with exactly two stored points of different x, calculate() throws
\* the division by zero of the residual step: a and b are assigned, the
\* residual and Pearson's R stay undefined, nothing is returned.
C8_TwoPointsResidual ==
    (Len(points) = 2 /\ ~SameX(points)) =>
        /\ calculate(Self).outcome = "DivisionByZero"
        /\ calculate(Self).ret = <<>>
        /\ calculate(Self).lr.a # Undefined
        /\ calculate(Self).lr.b # Undefined
        /\ calculate(Self).lr.residual = Undefined
        /\ calculate(Self).lr.pearsons_r = Undefined

\* calculate() has thrown at the residual step on two points.
C8_Witness ==
    /\ op = "calculate"
    /\ outcome = "DivisionByZero"
    /\ Len(points) = 2
    /\ ~SameX(points)
    /\ a # Undefined
    /\ residual = Undefined

\* -------------------------------------------------------------------- C9
\* C9: with two or more stored points that all have the same x, calculate()
\* throws the division by zero of the first division, and a, b, the
\* residual and Pearson's R are all undefined afterwards.
C9_SameXDenominator ==
    (Len(points) >= 2 /\ SameX(points)) =>
        /\ calculate(Self).outcome = "DivisionByZero"
        /\ Absent(calculate(Self).lr)

\* calculate() has thrown on three points of the same x before assigning a.
C9_Witness ==
    /\ op = "calculate"
    /\ outcome = "DivisionByZero"
    /\ Len(points) >= 3
    /\ SameX(points)
    /\ Absent(Self)

\* ------------------------------------------------------------------- C10
\* C10: with three or more stored points, not all of the same x (pairwise
\* different x included) and all of the same y, calculate() throws the
\* division by zero of the Pearson's R step: the residual is assigned and
\* pearsons_r stays undefined.
C10_SameYPearson ==
    (Len(points) >= 3 /\ ~SameX(points) /\ SameY(points)) =>
        /\ calculate(Self).outcome = "DivisionByZero"
        /\ calculate(Self).lr.residual # Undefined
        /\ calculate(Self).lr.pearsons_r = Undefined

\* calculate() has thrown at the Pearson's R step on three points of
\* pairwise different x and the same y.
C10_Witness ==
    /\ op = "calculate"
    /\ outcome = "DivisionByZero"
    /\ Len(points) = 3
    /\ \A i, j \in 1..3 : i # j => points[i].x # points[j].x
    /\ SameY(points)
    /\ residual # Undefined
    /\ pearsons_r = Undefined

\* ------------------------------------------------------------------- C11
\* The line y = m * x + c through two stored points of different x.
LineThrough(p, q) ==
    [m |-> div(minus(q.y, p.y), minus(q.x, p.x)),
     c |-> minus(p.y, mul(div(minus(q.y, p.y), minus(q.x, p.x)), p.x))]

\* The line through the first stored point and the first one of another x.
LineOf(pts) ==
    LineThrough(pts[1], pts[CHOOSE j \in 1..Len(pts) :
                               /\ pts[j].x # pts[1].x
                               /\ \A i \in 1..(j - 1) : pts[i].x = pts[1].x])

\* Three or more points, not all of the same x, that all lie on one line.
PerfectFit(pts) ==
    /\ Len(pts) >= 3
    /\ ~SameX(pts)
    /\ \A i \in 1..Len(pts) :
          pts[i].y = add(mul(LineOf(pts).m, pts[i].x), LineOf(pts).c)

\* The number m * time + c.
OnLine(line, time) == toNumber(add(mul(line.m, Big(time)), line.c))

\* The call c of calculate() returned and left a = c, b = m and a residual
\* of 0, and getValue returns the value of the line afterwards.
YieldsLine(c, line) ==
    /\ c.outcome = "ok"
    /\ c.lr.a = line.c
    /\ c.lr.b = line.m
    /\ c.lr.residual = toNumber(Zero)
    /\ \A time \in Times :
          /\ getValue(c.lr, time).outcome = "ok"
          /\ getValue(c.lr, time).ret = <<OnLine(line, time)>>

\* C11 as stated: whenever three or more stored points, not all of the same
\* x, lie on one line y = m * x + c, a slope m = 0 included, calculate()
\* returns with a = c, b = m and a residual of 0, and getValue(x) returns
\* m * x + c.
C11_PerfectFit ==
    PerfectFit(points) => YieldsLine(calculate(Self), LineOf(points))

\* The call c of calculate() threw the division by zero of the Pearson's R
\* step after assigning a = c, b = 0 and a residual of 0; on the instance lr
\* getValue returns c when a and b are assigned already and throws that
\* division by zero when they are not.
ThrowsOnFlatLine(lr, c, line) ==
    /\ c.outcome = "DivisionByZero"
    /\ c.ret = <<>>
    /\ c.lr.a = line.c
    /\ c.lr.b = Zero
    /\ c.lr.residual = toNumber(Zero)
    /\ c.lr.pearsons_r = Undefined
    /\ \A time \in Times :
          IF lr.a # Undefined /\ lr.b # Undefined
          THEN getValue(lr, time).ret = <<toNumber(line.c)>>
          ELSE getValue(lr, time).outcome = "DivisionByZero"

\* C11, amended: whenever three or more stored points, not all of the same
\* x, lie on one line y = m * x + c, calculate() assigns a = c, b = m and a
\* residual of 0; with m # 0 it returns, and getValue(x) returns m * x + c
\* whatever the cached fields held before; with m = 0 it throws the division
\* by zero of the Pearson's R step after these assignments.
C11_PerfectFitSlope ==
    PerfectFit(points) =>
        IF LineOf(points).m # Zero
        THEN /\ YieldsLine(calculate(Self), LineOf(points))
             /\ \A time \in Times :
                   getValue(Self, time).ret = <<OnLine(LineOf(points), time)>>
        ELSE ThrowsOnFlatLine(Self, calculate(Self), LineOf(points))

\* calculate() has returned on three or more points of the line y = 2 - x.
C11_Witness ==
    /\ op = "calculate"
    /\ outcome = "ok"
    /\ PerfectFit(points)
    /\ b = Big(0 - 1)
    /\ a = Big(2)
    /\ residual = toNumber(Zero)

\* ------------------------------------------------------------------- C12
\* The number v = p + c * sqrt(q) is not negative.
NumNonNeg(v) ==
    IF v.c = Zero THEN v.p.n >= 0
    ELSE IF v.p.n >= 0 /\ v.c.n > 0 THEN TRUE
    ELSE IF v.p.n <= 0 /\ v.c.n < 0 THEN FALSE
    ELSE IF v.c.n < 0
         THEN minus(pow2(v.p), mul(pow2(v.c), v.q)).n >= 0
         ELSE minus(mul(pow2(v.c), v.q), pow2(v.p)).n >= 0

\* v <= w for numbers of which at most one radicand appears.
NumLeq(v, w) == NumNonNeg(NumPlus(w, NumTimes(v, 0 - 1)))

\* C12: whenever getValues(x, k) has returned for k > 0, it returned three
\* numbers with lower <= fitted <= upper, the middle one is what getValue(x)
\* returns, and the lower and upper ones are that value minus and plus k
\* times the cached residual.
C12_BandOrdering ==
    (op = "getValues" /\ outcome = "ok" /\ args[2] > 0) =>
        /\ Len(ret) = 3
        /\ NumLeq(ret[1], ret[2])
        /\ NumLeq(ret[2], ret[3])
        /\ getValue(Self, args[1]).outcome = "ok"
        /\ ret[2] = getValue(Self, args[1]).ret[1]
        /\ ret[1] = NumPlus(ret[2], NumTimes(residual, 0 - args[2]))
        /\ ret[3] = NumPlus(ret[2], NumTimes(residual, args[2]))

\* getValues has returned a band of non-zero width around a fitted value
\* that is not 0, on an instance it had to calculate first.
C12_Witness ==
    /\ op = "getValues"
    /\ outcome = "ok"
    /\ Absent(pre)
    /\ ~IsZeroNum(residual)
    /\ ~IsZeroNum(ret[2])
    /\ ret[1] # ret[3]
    /\ NumLeq(ret[1], ret[3])
    /\ ~NumLeq(ret[3], ret[1])

\* ------------------------------------------------------------------- C13
\* C13: in every state between two public calls, a failed calculate()
\* included, the four cached fields a, b, residual and pearsons_r are all
\* present or all absent.
C13_AllOrNothing ==
    Absent(Self) \/ AllPresent(Self)

\* ------------------------------------------------------------------- C14
\* Three or more points with two different x and two different y.
NonDegenerate(pts) == Len(pts) >= 3 /\ ~SameX(pts) /\ ~SameY(pts)

\* C14: once a push has made the stored points non-degenerate, whatever a
\* failed calculate() or accessor had left in the cached fields before it,
\* the instance is the one constructed from the same sequence of points:
\* calculate() succeeds on it, fills the four cached fields with what it
\* computes on that fresh instance, and getValue returns the value of the
\* recalculated line.
C14_Recovery ==
    (op = "push" /\ points # pre.points /\ NonDegenerate(points)) =>
        /\ Self = constructor(Array(window)).lr
        /\ calculate(Self).outcome = "ok"
        /\ AllPresent(calculate(Self).lr)
        /\ calculate(Self) = calculate(constructor(Array(window)).lr)
        /\ \A time \in Times :
              getValue(Self, time).ret =
                  <<valueAt(calculate(constructor(Array(window)).lr).lr, Big(time))>>

\* A push has made non-degenerate the two points on which calculate() had
\* thrown after assigning a and b, and the recalculated slope is another.
C14_Witness ==
    /\ op = "push"
    /\ Len(pre.points) = 2
    /\ pre.a # Undefined
    /\ pre.residual = Undefined
    /\ NonDegenerate(points)
    /\ calculate(Self).outcome = "ok"
    /\ calculate(Self).lr.b # pre.b

\* ------------------------------------------------------------------- C15
\* The points of a batch as the instance stores them.
Stored(array) == [i \in 1..Len(array) |-> CalculatedPoint(array[i])]

\* C15: a call of push with one point or more (the constructor's call
\* included) calls clearCalculated exactly once, whatever the size of the
\* batch; when it returns the four cached fields are undefined, the points
\* of the batch are stored after the earlier ones and each of the five sums
\* has grown by the sum of its term over the points of the batch.
C15_PushClearsOnce ==
    (op \in {"push", "constructor"} /\ PointsOf(args[1]) # <<>>) =>
        /\ pushClears(args[1]) = 1
        /\ outcome = "ok"
        /\ Absent(Self)
        /\ points = pre.points \o Stored(PointsOf(args[1]))
        /\ sum_x = add(pre.sum_x, SumOfTerms(Stored(PointsOf(args[1])), "x"))
        /\ sum_y = add(pre.sum_y, SumOfTerms(Stored(PointsOf(args[1])), "y"))
        /\ sum_xy = add(pre.sum_xy, SumOfTerms(Stored(PointsOf(args[1])), "xy"))
        /\ sum_x_squared =
              add(pre.sum_x_squared, SumOfTerms(Stored(PointsOf(args[1])), "x_squared"))
        /\ sum_y_squared =
              add(pre.sum_y_squared, SumOfTerms(Stored(PointsOf(args[1])), "y_squared"))

\* A push of an array of two points has cleared the a and b a calculate()
\* had assigned, and every sum has grown.
C15_Witness ==
    /\ op = "push"
    /\ args[1].array
    /\ Len(PointsOf(args[1])) = 2
    /\ pre.a # Undefined
    /\ Absent(Self)
    /\ sum_xy # pre.sum_xy
    /\ sum_x_squared # pre.sum_x_squared

\* ------------------------------------------------------------------- C16
\* C16: after the points p1..pn were handed over in that order and k of
\* them removed by shift, the stored sequence is p(k+1)..pn in that order
\* and count() is n - k; a shift that found a point removed the oldest one
\* and subtracted its x, y, x*y, x^2 and y^2 from the sums.
C16_ShiftFifo ==
    /\ points = Stored(window)
    /\ count(Self).ret = <<toNumber(Big(Len(window)))>>
    /\ (op = "shift" /\ pre.points # <<>>) =>
         /\ points = Tail(pre.points)
         /\ sum_x = minus(pre.sum_x, Head(pre.points).x)
         /\ sum_y = minus(pre.sum_y, Head(pre.points).y)
         /\ sum_xy = minus(pre.sum_xy, Head(pre.points).xy)
         /\ sum_x_squared = minus(pre.sum_x_squared, Head(pre.points).x_squared)
         /\ sum_y_squared = minus(pre.sum_y_squared, Head(pre.points).y_squared)

\* A shift has removed the oldest of three points or more, which differed
\* from the newest one, and two points or more remain.
C16_Witness ==
    /\ op = "shift"
    /\ Len(pre.points) >= 3
    /\ Head(pre.points) # pre.points[Len(pre.points)]
    /\ Head(pre.points).xy # Zero
    /\ Len(points) >= 2
    /\ points[Len(points)] = pre.points[Len(pre.points)]

\* ------------------------------------------------------------------- C17
\* C17: shift() called on an instance without stored points raises no
\* error and changes nothing: the list stays empty, the five sums stay zero
\* and the four cached fields stay as they were.
C17_ShiftOnEmpty ==
    /\ points = <<>> => shift(Self) = Res(Self, "ok", <<>>, 0)
    /\ (op = "shift" /\ pre.points = <<>>) =>
         /\ outcome = "ok"
         /\ Self = pre
         /\ points = <<>>
         /\ <<sum_x, sum_y, sum_xy, sum_x_squared, sum_y_squared>>
               = <<Zero, Zero, Zero, Zero, Zero>>

\* shift() has been called on an instance without stored points.
C17_Witness ==
    /\ op = "shift"
    /\ pre.points = <<>>
    /\ points = <<>>
    /\ window = <<>>

\* ------------------------------------------------------------------- C18
\* The queries, by the name the last call is recorded under.
QueryOps == AccessorOps \cup {"count", "calculate"}

\* C18: count() returns the number of stored points and leaves the instance
\* as it was; and no query (count, calculate or an accessor), whether it
\* returned or threw, has changed the stored points or one of the five
\* sums.
C18_QueriesKeepCore ==
    /\ op = "count" =>
         /\ outcome = "ok"
         /\ ret = <<toNumber(Big(Len(window)))>>
         /\ Self = pre
    /\ op \in QueryOps => Core(Self) = Core(pre)

\* A calculate() has thrown after assigning cached fields, on points whose
\* sums are not zero.
C18_Witness ==
    /\ op = "calculate"
    /\ outcome = "DivisionByZero"
    /\ Self # pre
    /\ Core(Self) = Core(pre)
    /\ sum_xy # Zero

\* ------------------------------------------------------------------- C19
\* Each cached field of lr that is present holds what the call c of
\* calculate() on lr assigns to it.
FreshWherePresent(lr, c) ==
    /\ lr.a # Undefined => lr.a = c.lr.a
    /\ lr.b # Undefined => lr.b = c.lr.b
    /\ lr.residual # Undefined => lr.residual = c.lr.residual
    /\ lr.pearsons_r # Undefined => lr.pearsons_r = c.lr.pearsons_r

\* C19: in every reachable state each cached field that is present holds
\* the value calculate() derives from the points and sums stored now; and
\* right after a push or a shift that changed the points none is present,
\* so that no accessor can return a value of the earlier points.
C19_NoStaleCache ==
    /\ ~Absent(Self) => FreshWherePresent(Self, calculate(Self))
    /\ (op \in {"push", "shift"} /\ points # pre.points) =>
         /\ Absent(Self)
         /\ \A time \in Times :
               \/ getValue(Self, time).outcome # "ok"
               \/ getValue(Self, time).ret =
                     <<valueAt(calculate(Self).lr, Big(time))>>

\* An accessor has returned the residual, not 0, of three points or more
\* that it had to calculate first.
C19_Witness ==
    /\ op = "getResidual"
    /\ outcome = "ok"
    /\ Absent(pre)
    /\ AllPresent(Self)
    /\ Len(points) >= 3
    /\ ~IsZeroNum(residual)
    /\ ret = <<NumTimes(calculate(pre).lr.residual, args[1])>>

\* ------------------------------------------------------------------- C20
\* C20: in every reachable state a or b is present only with two stored
\* points or more, the residual or pearsons_r is present only with three
\* or more, and with fewer than two all four are absent.
C20_CacheNeedsPoints ==
    /\ (a # Undefined \/ b # Undefined) => Len(points) >= 2
    /\ (residual # Undefined \/ pearsons_r # Undefined) => Len(points) >= 3
    /\ Len(points) < 2 => Absent(Self)

\* A shift has left two of three points whose four cached fields were
\* present, and none is present any more.
C20_Witness ==
    /\ op = "shift"
    /\ Len(pre.points) = 3
    /\ AllPresent(pre)
    /\ Len(points) = 2
    /\ Absent(Self)

====
